---- MODULE Spec2Model ----
(***************************************************************************)
(* Validator client service (validator_client/src/service.rs): the        *)
(* start-up sequence of Service::start, the per-slot scheduler loop        *)
(* (per_slot_execution = update_current_slot; check_for_duties;            *)
(* process_duties) and the duty threads it spawns.                         *)
(*                                                                         *)
(* Option<Slot> is encoded as an integer, None being -1.  The slot clock   *)
(* and the DutiesManager (duties map, run_update, get_current_work) live   *)
(* outside the two source files; the clock's readings are inputs of the    *)
(* actions, the DutiesManager is modelled from its specification.          *)
(***************************************************************************)
EXTENDS Integers, Sequences, FiniteSets, Bags, TLC

\* ---- bounds of the model ----
MaxSlot == 4
NumValidators == 2
MaxAttempts == 2
SlotsPerEpoch == 2

None == -1

Slots == 0..MaxSlot
OptionSlot == Slots \cup {None}
Validators == 0..(NumValidators - 1)

\* Slot::epoch(slots_per_epoch)
EpochOf(slot) == slot \div SlotsPerEpoch
Epochs == {EpochOf(s) : s \in Slots}

VARIABLES
    pc,            \* position of the main thread inside Service::start
    error,         \* the Err returned by start ("" while none)
    attempts,      \* number of /node/info requests made so far (saturating)
    connected,     \* try_info_continuously has broken out with a response
    current_slot,  \* Service.current_slot : Option<Slot>
    duties_map,    \* DutiesManager.duties_map : epoch -> validator -> duty
    work,          \* result of the last get_current_work call
    threads,       \* bag of all duty threads spawned so far
    dispatched,    \* slot -> number of process_duties calls made at it
    tick,          \* what the running (or last) tick has done so far
    updates,       \* epoch -> number of run_update calls made for it
    stage,         \* spawned thread -> how far the thread has got
    failures,      \* the threads one of whose steps has failed
    producing,     \* spawned thread -> the slot its latest step worked on
    wall_time,     \* the system time the slot clock is read at
    clock_slot,    \* what slot_clock.now() returned at wall_time
    eth1_cache,    \* Eth1DataCache.cache : the block numbers it has data of
    last_block,    \* Eth1DataCache.last_block
    eth1           \* the update_cache call under way (or the last one)

thread_vars == <<stage, failures, producing>>
clock_vars == <<wall_time, clock_slot>>
cache_vars == <<eth1_cache, last_block, eth1>>
\* The state outside the validator service
aux_vars == <<clock_vars, cache_vars>>

vars == <<pc, error, attempts, connected, current_slot, duties_map, work,
          threads, dispatched, tick, updates, thread_vars, aux_vars>>

NoTick == [fired |-> FALSE, now |-> None, prev |-> None, update |-> "none",
           got_work |-> FALSE, spawned |-> 0, epoch |-> None,
           variant |-> 0, awaited |-> FALSE]

\* ---- the beacon node's answers to a duties request ----
\* Per-validator duties of an epoch: block proposal slot and attestation slot
DutyChoices(epoch) ==
    LET f == epoch * SlotsPerEpoch
        l == f + SlotsPerEpoch - 1
    IN << [block_production_slot |-> None, attestation_slot |-> f],
          [block_production_slot |-> f,    attestation_slot |-> f],
          [block_production_slot |-> l,    attestation_slot |-> f],
          [block_production_slot |-> f,    attestation_slot |-> None],
          [block_production_slot |-> None, attestation_slot |-> None] >>

Variants == 1..Len(DutyChoices(0))

\* What a duties request can come back with: a failure or one of the variants
Responses ==
    {[ok |-> FALSE, variant |-> 0]}
        \cup {[ok |-> TRUE, variant |-> k] : k \in Variants}

NodeDuties(epoch, k) ==
    [v \in Validators |->
        DutyChoices(epoch)[((k + v) % Len(DutyChoices(epoch))) + 1]]


\* ---- DutiesManager ----
\* run_update dropping the epoch's entry when the request fails
RunUpdate_ClearOnFail(map, epoch, response) ==
    IF ~response.ok
    THEN [e \in (DOMAIN map) \ {epoch} |-> map[e]]
    ELSE [e \in (DOMAIN map) \cup {epoch} |->
            IF e = epoch THEN NodeDuties(epoch, response.variant)
                         ELSE map[e]]

\* DutiesManager::run_update(epoch): one request to the beacon node; on
\* success the epoch's entry is replaced as a whole, on failure the map is
\* left as it is.
RunUpdate(map, epoch, response) ==
    IF ~response.ok
    THEN map
    ELSE [e \in (DOMAIN map) \cup {epoch} |->
            IF e = epoch THEN NodeDuties(epoch, response.variant)
                         ELSE map[e]]

\* A work test that looks at the epoch only, not at the slot
IsWorkSlot_AnySlot(duty, slot) ==
    [produce_block    |-> duty.block_production_slot # None,
     attestation_duty |-> duty.attestation_slot]

\* The work a validator's epoch duty yields at a slot: which of its duties
\* are assigned to exactly that slot.
IsWorkSlot(duty, slot) ==
    [produce_block    |-> duty.block_production_slot = slot,
     attestation_duty |-> IF duty.attestation_slot = slot
                          THEN duty.attestation_slot ELSE None]

HasWork(info) == info.produce_block \/ info.attestation_duty # None

RECURSIVE WorkFrom(_, _, _)
WorkFrom(entry, slot, index) ==
    IF index >= NumValidators
    THEN << >>
    ELSE LET info == IsWorkSlot(entry[index], slot)
         IN (IF HasWork(info) THEN << <<index, info>> >> ELSE << >>)
            \o WorkFrom(entry, slot, index + 1)

\* get_current_work answering for an epoch without entry as if every
\* validator had a block to produce
GetCurrentWork_Default(map, slot) ==
    IF EpochOf(slot) \in DOMAIN map
    THEN WorkFrom(map[EpochOf(slot)], slot, 0)
    ELSE WorkFrom([v \in Validators |->
                     [block_production_slot |-> slot,
                      attestation_slot |-> None]], slot, 0)

\* DutiesManager::get_current_work(slot): the (signer index, work) pairs due
\* at slot, in signer order; nothing when the epoch has no entry.
GetCurrentWork(map, slot) ==
    IF EpochOf(slot) \in DOMAIN map
    THEN WorkFrom(map[EpochOf(slot)], slot, 0)
    ELSE << >>

\* ---- duty threads ----
BlockThread(signer_index, slot) ==
    [kind |-> "block", signer_index |-> signer_index, slot |-> slot,
     duty |-> None]

AttestationThread(signer_index, slot, duty) ==
    [kind |-> "attestation", signer_index |-> signer_index, slot |-> slot,
     duty |-> duty]

\* process_duties with the attestation test written as an else branch
SpawnFor_ElseIf(item, slot) ==
    IF item[2].produce_block
    THEN << BlockThread(item[1], slot) >>
    ELSE IF item[2].attestation_duty # None
    THEN << AttestationThread(item[1], slot, item[2].attestation_duty) >>
    ELSE << >>

\* process_duties spawning the attestation thread for every work item
SpawnFor_AttestAlways(item, slot) ==
    (IF item[2].produce_block
     THEN << BlockThread(item[1], slot) >> ELSE << >>)
    \o
    << AttestationThread(item[1], slot, item[2].attestation_duty) >>

\* The threads one work item makes process_duties spawn, in spawn order
SpawnFor(item, slot) ==
    (IF item[2].produce_block
     THEN << BlockThread(item[1], slot) >> ELSE << >>)
    \o
    (IF item[2].attestation_duty # None
     THEN << AttestationThread(item[1], slot, item[2].attestation_duty) >>
     ELSE << >>)

RECURSIVE SpawnAll(_, _)
SpawnAll(items, slot) ==
    IF items = << >>
    THEN << >>
    ELSE SpawnFor(Head(items), slot) \o SpawnAll(Tail(items), slot)

RECURSIVE SeqToBag(_)
SeqToBag(seq) ==
    IF seq = << >>
    THEN EmptyBag
    ELSE SetToBag({Head(seq)}) (+) SeqToBag(Tail(seq))

Saturate(n, max) == IF n >= max THEN max ELSE n + 1

\* ---- the slot clock and the Eth1 data cache, when not under study ----
NotRead == [read |-> FALSE, slot |-> None]

ClockIdle ==
    /\ wall_time = 0
    /\ clock_slot = NotRead

NoUpdate == [pc |-> "idle", calls |-> 0, marked |-> FALSE, from |-> 0,
             to |-> 0, i |-> 0, local |-> None, fetched |-> {}]

\* Eth1DataCache::new
CacheNew ==
    /\ eth1_cache = {}
    /\ last_block = 0
    /\ eth1 = NoUpdate

\* ---- initial state: Service::start has just been called ----
Init ==
    /\ pc = "rest_client"
    /\ error = ""
    /\ attempts = 0
    /\ connected = FALSE
    /\ current_slot = None
    /\ duties_map = << >>
    /\ work = << >>
    /\ threads = EmptyBag
    /\ dispatched = [s \in Slots |-> 0]
    /\ tick = NoTick
    /\ updates = << >>
    /\ stage = << >>
    /\ failures = {}
    /\ producing = << >>
    /\ ClockIdle
    /\ CacheNew

Exit(message) ==
    /\ pc' = "exited"
    /\ error' = message

\* initialize_service: RestClient::new(validator_config.clone())?
RestClientNew ==
    /\ pc = "rest_client"
    /\ \E ok \in BOOLEAN :
          IF ok THEN pc' = "connect" /\ error' = error
                ELSE Exit("RestClient::new failed")
    /\ UNCHANGED <<attempts, connected, current_slot, duties_map, work,
                   threads, dispatched, tick>>
    /\ UNCHANGED <<updates, thread_vars, aux_vars>>

\* try_info_continuously giving up after MaxAttempts requests
TryInfoStep_Capped(ok, n) ==
    /\ attempts' = Saturate(n, MaxAttempts)
    /\ connected' = (connected \/ ok)
    /\ pc' = IF ok THEN "fetch_keys"
             ELSE IF n + 1 >= MaxAttempts THEN "exited" ELSE "connect"

\* One iteration of the loop_fn try_info_continuously
TryInfoStep(ok, n) ==
    /\ attempts' = Saturate(n, MaxAttempts)
    /\ IF ok THEN pc' = "fetch_keys" /\ connected' = TRUE
             ELSE pc' = "connect" /\ connected' = connected

TryInfo ==
    /\ pc = "connect"
    /\ \E ok \in BOOLEAN : TryInfoStep(ok, attempts)
    /\ UNCHANGED <<error, current_slot, duties_map, work, threads,
                   dispatched, tick>>
    /\ UNCHANGED <<updates, thread_vars, aux_vars>>

\* initialize_service: validator_config.fetch_keys(&log)?
FetchKeys ==
    /\ pc = "fetch_keys"
    /\ \E ok \in BOOLEAN :
          IF ok THEN pc' = "build_runtime" /\ error' = error
                ELSE Exit("fetch_keys failed")
    /\ UNCHANGED <<attempts, connected, current_slot, duties_map, work,
                   threads, dispatched, tick>>
    /\ UNCHANGED <<updates, thread_vars, aux_vars>>

\* start: Builder::new()...build().map_err(..)?
BuildRuntime ==
    /\ pc = "build_runtime"
    /\ \E ok \in BOOLEAN :
          IF ok THEN pc' = "duration" /\ error' = error
                ELSE Exit("Tokio runtime failed")
    /\ UNCHANGED <<attempts, connected, current_slot, duties_map, work,
                   threads, dispatched, tick>>
    /\ UNCHANGED <<updates, thread_vars, aux_vars>>

\* start reporting the missing duration but setting the interval up anyway
DurationStep_Continue(known) ==
    /\ pc' = "waiting"
    /\ error' = IF known THEN error
                ELSE "Unable to determine duration to next slot. Exiting."

\* start: slot_clock.duration_to_next_slot().ok_or_else(..)?, then the
\* interval is set up and handed to runtime.block_on
DurationStep(known) ==
    IF known THEN pc' = "waiting" /\ error' = error
             ELSE Exit("Unable to determine duration to next slot. Exiting.")

DurationToNextSlot ==
    /\ pc = "duration"
    /\ \E known \in BOOLEAN : DurationStep(known)
    /\ UNCHANGED <<attempts, connected, current_slot, duties_map, work,
                   threads, dispatched, tick>>
    /\ UNCHANGED <<updates, thread_vars, aux_vars>>

\* update_current_slot with the duplicate test written < instead of <=
UpdateCurrentSlot_Lt(cur, now) ==
    IF now = None
    THEN [ok |-> FALSE, slot |-> cur,
          err |-> "Genesis is not in the past. Exiting."]
    ELSE IF cur # None /\ now < cur
    THEN [ok |-> FALSE, slot |-> cur, err |-> "Duplicate slot"]
    ELSE [ok |-> TRUE, slot |-> now, err |-> ""]

\* update_current_slot storing the reading before it tests for a duplicate
UpdateCurrentSlot_StoreFirst(cur, now) ==
    IF now = None
    THEN [ok |-> FALSE, slot |-> cur,
          err |-> "Genesis is not in the past. Exiting."]
    ELSE IF cur # None /\ now <= cur
    THEN [ok |-> FALSE, slot |-> now, err |-> "Duplicate slot"]
    ELSE [ok |-> TRUE, slot |-> now, err |-> ""]

\* update_current_slot: the clock reading now against Service.current_slot
UpdateCurrentSlot(cur, now) ==
    IF now = None
    THEN [ok |-> FALSE, slot |-> cur,
          err |-> "Genesis is not in the past. Exiting."]
    ELSE IF cur # None /\ now <= cur
    THEN [ok |-> FALSE, slot |-> cur, err |-> "Duplicate slot"]
    ELSE [ok |-> TRUE, slot |-> now, err |-> ""]

\* start ending the loop when the clock has no slot
PerSlotExecution_NoSlotFatal(result) ==
    IF result.ok THEN "check_for_duties"
    ELSE IF result.err = "Duplicate slot" THEN "waiting"
    ELSE "exited"

\* per_slot_execution dropping the result of update_current_slot
PerSlotExecution_IgnoreDuplicate(result) ==
    IF result.ok \/ result.err = "Duplicate slot"
    THEN "check_for_duties" ELSE "waiting"

\* per_slot_execution going on to the duties whatever update_current_slot
\* returned
PerSlotExecution_NoReturn(result) == "check_for_duties"

\* per_slot_execution: update_current_slot()? returns early on an error;
\* the for_each closure of start drops that error and returns Ok(()), so the
\* interval goes on to its next tick
PerSlotExecution(result) ==
    IF result.ok THEN "check_for_duties" ELSE "waiting"

\* The interval fires; the closure runs per_slot_execution, which begins
\* with update_current_slot
Tick ==
    /\ pc = "waiting"
    /\ \E now \in OptionSlot :
          LET result == UpdateCurrentSlot(current_slot, now)
          IN /\ current_slot' = result.slot
             /\ pc' = PerSlotExecution(result)
             /\ tick' = [fired |-> TRUE, now |-> now, prev |-> current_slot,
                         update |-> "none", got_work |-> FALSE,
                         spawned |-> 0, epoch |-> None, variant |-> 0,
                         awaited |-> /\ current_slot = None
                                     /\ (tick.awaited \/ now = None)]
    /\ UNCHANGED <<error, attempts, connected, duties_map, work, threads,
                   dispatched>>
    /\ UNCHANGED <<updates, thread_vars, aux_vars>>

\* check_for_duties treating a failed run_update as the end of the service
CheckForDutiesDone_Fatal(response) ==
    IF response.ok THEN "process_duties" ELSE "exited"

\* check_for_duties: the outcome of run_update is discarded (let _empty)
CheckForDutiesDone(response) == "process_duties"

\* check_for_duties asking for the duties of the epoch after the current one
CurrentEpoch_Next(cur) == EpochOf(cur) + 1

\* check_for_duties: current_epoch = current_slot.epoch(slots_per_epoch)
CurrentEpoch(cur) == EpochOf(cur)

CheckForDuties ==
    /\ pc = "check_for_duties"
    /\ IF current_slot = None
       THEN /\ pc' = "panicked"
            /\ UNCHANGED <<duties_map, tick, updates>>
       ELSE \E response \in Responses :
               LET current_epoch == CurrentEpoch(current_slot)
               IN /\ duties_map' = RunUpdate(duties_map, current_epoch,
                                             response)
                  /\ updates' = [e \in (DOMAIN updates) \cup {current_epoch}
                                   |-> IF e = current_epoch
                                       THEN IF e \in DOMAIN updates
                                            THEN Saturate(updates[e],
                                                          SlotsPerEpoch + 1)
                                            ELSE 1
                                       ELSE updates[e]]
                  /\ tick' = [tick EXCEPT
                                 !.update = IF response.ok
                                            THEN "ok" ELSE "failed",
                                 !.epoch = current_epoch,
                                 !.variant = response.variant]
                  /\ pc' = CheckForDutiesDone(response)
    /\ UNCHANGED <<error, attempts, connected, current_slot, work, threads,
                   dispatched>>
    /\ UNCHANGED <<thread_vars, aux_vars>>

\* process_duties: get_current_work(current_slot), then one thread per
\* produce_block and one per attestation_duty of every work item
\* process_duties joining the threads it has spawned before it returns
AfterSpawn_Join(spawned) ==
    IF spawned = << >> THEN "waiting" ELSE "join"

\* process_duties drops every JoinHandle of std::thread::spawn: the threads
\* are detached and process_duties returns at once
AfterSpawn(spawned) == "waiting"

\* A spawned thread starts at the first step of its producer
Started(spawned) ==
    [t \in (DOMAIN stage) \cup {spawned[i] : i \in 1..Len(spawned)} |->
        IF t \in DOMAIN stage THEN stage[t] ELSE "fetch"]

\* No step of a thread has run yet
NotStepped == [slot |-> None, at |-> None]

\* A spawned thread has not worked on any slot yet
Idle(spawned) ==
    [t \in (DOMAIN producing) \cup {spawned[i] : i \in 1..Len(spawned)} |->
        IF t \in DOMAIN producing THEN producing[t] ELSE NotStepped]

ProcessDuties ==
    /\ pc = "process_duties"
    /\ IF current_slot = None
       THEN /\ pc' = "panicked"
            /\ UNCHANGED <<work, threads, dispatched, tick, stage,
                            producing>>
       ELSE LET items   == GetCurrentWork(duties_map, current_slot)
                spawned == SpawnAll(items, current_slot)
            IN /\ work' = items
               /\ threads' = threads (+) SeqToBag(spawned)
               /\ stage' = Started(spawned)
               /\ producing' = Idle(spawned)
               /\ dispatched' = [dispatched EXCEPT
                                    ![current_slot] = Saturate(@, 2)]
               /\ tick' = [tick EXCEPT !.got_work = TRUE,
                                       !.spawned = Len(spawned)]
               /\ pc' = AfterSpawn(spawned)
    /\ UNCHANGED <<error, attempts, connected, current_slot, duties_map>>
    /\ UNCHANGED <<updates, failures, aux_vars>>

\* The interval stream yields an error: for_each ends and block_on returns
\* Err("Service thread failed: ..")
IntervalError ==
    /\ pc = "waiting"
    /\ Exit("Service thread failed")
    /\ UNCHANGED <<attempts, connected, current_slot, duties_map, work,
                   threads, dispatched, tick>>
    /\ UNCHANGED <<updates, thread_vars, aux_vars>>

\* ---- the duty threads ----
\* The steps of a producer (handle_produce_block, handle_produce_attestation):
\* fetch the unsigned block or attestation, sign it, publish it
Running == {"fetch", "sign", "publish"}

\* A failed step of one thread ending every running thread of its slot
StepThread_Poison(st, t, ok) ==
    [u \in DOMAIN st |->
        IF ok
        THEN IF u # t THEN st[u]
             ELSE IF st[u] = "fetch" THEN "sign"
             ELSE IF st[u] = "sign" THEN "publish" ELSE "done"
        ELSE IF u.slot = t.slot /\ st[u] \in Running THEN "failed"
             ELSE st[u]]

\* One step of thread t: on success it moves on to its next step, on a
\* failure the error is logged and the thread ends; no other thread is
\* touched
StepThread(st, t, ok) ==
    [st EXCEPT ![t] = IF ~ok THEN "failed"
                      ELSE IF @ = "fetch" THEN "sign"
                      ELSE IF @ = "sign" THEN "publish"
                      ELSE "done"]

\* A producer reading the slot to work on from the service at each step
ProducerSlot_Shared(t, cur) == cur

\* The slot a producer works on: `let slot = self.current_slot.expect(..)`
\* copies the slot at dispatch, the move closure takes the copy into the
\* thread and the producer is built around it; Service.current_slot itself
\* is not shared with the thread
ProducerSlot(t, cur) == t.slot

ThreadStep ==
    /\ \E t \in DOMAIN stage :
          /\ stage[t] \in Running
          /\ \E ok \in BOOLEAN :
                /\ stage' = StepThread(stage, t, ok)
                /\ failures' = IF ok THEN failures ELSE failures \cup {t}
          /\ producing' = [producing EXCEPT
                              ![t] = [slot |-> ProducerSlot(t, current_slot),
                                      at   |-> current_slot]]
    /\ UNCHANGED <<pc, error, attempts, connected, current_slot, duties_map,
                   work, threads, dispatched, tick, updates, aux_vars>>

Next ==
    \/ RestClientNew
    \/ TryInfo
    \/ FetchKeys
    \/ BuildRuntime
    \/ DurationToNextSlot
    \/ Tick
    \/ CheckForDuties
    \/ ProcessDuties
    \/ IntervalError

Spec == Init /\ [][Next]_vars

\* ---- the scheduler loop together with its duty threads ----
\* The threads are followed from the state the service is in once it has
\* connected at its first request and run its first tick at FirstSlot with a
\* failed refresh; the slots after FirstSlot are still to be processed.
FirstSlot == MaxSlot - 2

InitThreads ==
    /\ pc = "waiting"
    /\ error = ""
    /\ attempts = 1
    /\ connected = TRUE
    /\ current_slot = FirstSlot
    /\ duties_map = << >>
    /\ work = << >>
    /\ threads = EmptyBag
    /\ dispatched = [s \in Slots |-> IF s = FirstSlot THEN 1 ELSE 0]
    /\ tick = [fired |-> TRUE, now |-> FirstSlot, prev |-> None,
               update |-> "failed", got_work |-> TRUE, spawned |-> 0,
               epoch |-> EpochOf(FirstSlot), variant |-> 0,
               awaited |-> FALSE]
    /\ updates = [e \in {EpochOf(FirstSlot)} |-> 1]
    /\ stage = << >>
    /\ failures = {}
    /\ producing = << >>
    /\ ClockIdle
    /\ CacheNew

NextThreads ==
    \/ Tick
    \/ CheckForDuties
    \/ ProcessDuties
    \/ IntervalError
    \/ ThreadStep

SpecThreads == InitThreads /\ [][NextThreads]_vars

\* The state of the validator service right after Service::start was called
ServiceNotStarted ==
    /\ pc = "rest_client"
    /\ error = ""
    /\ attempts = 0
    /\ connected = FALSE
    /\ current_slot = None
    /\ duties_map = << >>
    /\ work = << >>
    /\ threads = EmptyBag
    /\ dispatched = [s \in Slots |-> 0]
    /\ tick = NoTick
    /\ updates = << >>
    /\ stage = << >>
    /\ failures = {}
    /\ producing = << >>

service_vars == <<pc, error, attempts, connected, current_slot, duties_map,
                  work, threads, dispatched, tick, updates, thread_vars>>

\* ---- the slot clock ----
\* Times are counted in tenths of a second.  The service builds its clock
\* with genesis Duration::from_secs(0) and the slot duration
\* milliseconds_per_slot, here 6 s.
Genesis == 0
SlotDuration == 60
MaxBefore == 10
MaxAfter == 130

WallTimes == (Genesis - MaxBefore)..(Genesis + MaxAfter)

\* A clock that has no slot until genesis is strictly in the past
SlotClockNow_Strict(t) ==
    IF t <= Genesis THEN None ELSE (t - Genesis) \div SlotDuration

\* SlotClock::now at wall time t: no slot before genesis, then the number of
\* whole slot durations since genesis
SlotClockNow(t) ==
    IF t < Genesis THEN None ELSE (t - Genesis) \div SlotDuration

InitClock ==
    /\ ServiceNotStarted
    /\ CacheNew
    /\ wall_time \in WallTimes
    /\ clock_slot = NotRead

\* slot_clock.now() is called
ClockRead ==
    /\ clock_slot' = [read |-> TRUE, slot |-> SlotClockNow(wall_time)]
    /\ UNCHANGED <<wall_time, service_vars, cache_vars>>

\* Time passes
TimePasses ==
    /\ wall_time + 1 \in WallTimes
    /\ wall_time' = wall_time + 1
    /\ clock_slot' = NotRead
    /\ UNCHANGED <<service_vars, cache_vars>>

NextClock ==
    \/ ClockRead
    \/ TimePasses

SpecClock == InitClock /\ [][NextClock]_vars

\* ---- the Eth1 data cache (eth1_chain/src/cache.rs) ----
MaxBlock == 8
MaxCalls == 2

\* fetch_eth1_data: the block asked for is current_block_number - distance,
\* or 0 when that underflows
FetchBlockNumber(distance, current_block_number) ==
    IF current_block_number >= distance
    THEN current_block_number - distance
    ELSE 0

\* update_cache: eth1_future.and_then(..) is built and dropped without being
\* polled, so its closure (the insert into the cache) never runs
DroppedInsert(cache, block_number) == cache

\* update_cache storing the current block number through the write guard
SharedLastBlock_WriteBack(shared, current_block_number) ==
    current_block_number

\* update_cache: `let mut last_block = *last_block.write();` copies the u64
\* out of the guard, and the assignment that follows is to that copy
SharedLastBlock(shared, current_block_number) == shared

InitCache ==
    /\ ServiceNotStarted
    /\ ClockIdle
    /\ CacheNew

\* update_cache: get_current_block_number() fails, map_err prints
UpdateCacheFailed ==
    /\ eth1.pc = "idle"
    /\ eth1' = [eth1 EXCEPT !.calls = Saturate(@, MaxCalls)]
    /\ UNCHANGED <<eth1_cache, last_block, service_vars, clock_vars>>

\* update_cache: get_current_block_number() yields n; last_block is read
UpdateCacheStart ==
    /\ eth1.pc = "idle"
    /\ \E n \in 0..MaxBlock :
          eth1' = [pc |-> "loop", calls |-> Saturate(eth1.calls, MaxCalls),
                   marked |-> eth1.marked, from |-> last_block, to |-> n,
                   i |-> last_block, local |-> None, fetched |-> {}]
    /\ UNCHANGED <<eth1_cache, last_block, service_vars, clock_vars>>

\* update_cache: one iteration of for i in last_block_read..current
UpdateCacheIter ==
    /\ eth1.pc = "loop"
    /\ eth1.i < eth1.to
    /\ IF eth1.i \notin eth1_cache
       THEN LET block_number == FetchBlockNumber(eth1.i, eth1.to)
            IN /\ eth1_cache' = DroppedInsert(eth1_cache, block_number)
               /\ last_block' = SharedLastBlock(last_block, eth1.to)
               /\ eth1' = [eth1 EXCEPT
                              !.i = @ + 1,
                              !.local = eth1.to,
                              !.marked = TRUE,
                              !.fetched = @ \cup {block_number}]
       ELSE /\ eth1' = [eth1 EXCEPT !.i = @ + 1]
            /\ UNCHANGED <<eth1_cache, last_block>>
    /\ UNCHANGED <<service_vars, clock_vars>>

\* update_cache: the loop is over
UpdateCacheDone ==
    /\ eth1.pc = "loop"
    /\ eth1.i >= eth1.to
    /\ eth1' = [eth1 EXCEPT !.pc = "idle"]
    /\ UNCHANGED <<eth1_cache, last_block, service_vars, clock_vars>>

NextCache ==
    \/ UpdateCacheFailed
    \/ UpdateCacheStart
    \/ UpdateCacheIter
    \/ UpdateCacheDone

SpecCache == InitCache /\ [][NextCache]_vars

TypeOK ==
    /\ pc \in {"rest_client", "connect", "fetch_keys", "build_runtime",
               "duration", "waiting", "check_for_duties", "process_duties",
               "exited", "panicked"}
    /\ attempts \in 0..MaxAttempts
    /\ connected \in BOOLEAN
    /\ current_slot \in OptionSlot
    /\ DOMAIN duties_map \subseteq Epochs
    /\ IsABag(threads)
    /\ dispatched \in [Slots -> 0..2]

\* ---- helpers of the properties ----
\* The tick on record found its clock reading at or below current_slot
DuplicateTick ==
    /\ tick.fired
    /\ tick.now # None
    /\ tick.prev # None
    /\ tick.now <= tick.prev

\* The tick on record has run to its end through process_duties
TickProcessed == pc = "waiting" /\ tick.fired /\ tick.got_work

InWork(v, items) == \E i \in 1..Len(items) : items[i][1] = v

\* The threads a step adds to the bag
NewThreads == BagToSet(threads' (-) threads)

\* C1: no slot is processed twice: process_duties runs at most once with any
\* given current slot, and no duty thread (validator, duty, slot) is ever
\* spawned a second time.
C1_NoSlotProcessedTwice ==
    /\ \A s \in Slots : dispatched[s] <= 1
    /\ \A t \in BagToSet(threads) : CopiesIn(t, threads) = 1

\* A tick repeated a slot that had been dispatched with threads, and was
\* turned away
C1_Witness ==
    /\ DuplicateTick
    /\ pc = "waiting"
    /\ dispatched[tick.now] = 1
    /\ \E t \in BagToSet(threads) : t.slot = tick.now

\* C2: current_slot is strictly increasing: every write stores a slot above
\* the value held before, and a set current_slot never becomes None again.
C2_CurrentSlotStrictlyIncreasing ==
    [][ /\ (current_slot # None => current_slot' # None)
        /\ (current_slot' # current_slot => current_slot' > current_slot)
        /\ (pc = "waiting" /\ pc' = "check_for_duties"
               => current_slot' # None /\ current_slot' > current_slot)
      ]_vars

\* current_slot has been written over an earlier slot
C2_Witness ==
    /\ tick.fired
    /\ tick.prev # None
    /\ current_slot > tick.prev
    /\ current_slot = tick.now

\* C3: a tick whose clock slot is at or below current_slot makes no duty
\* refresh, no get_current_work call and spawns no thread.
C3_DuplicateTickDoesNothing ==
    DuplicateTick =>
        /\ tick.update = "none"
        /\ ~tick.got_work
        /\ tick.spawned = 0
        /\ pc \in {"waiting", "exited"}
        /\ current_slot = tick.prev

\* A duplicate tick was turned away at a slot where the map holds due work
C3_Witness ==
    /\ DuplicateTick
    /\ GetCurrentWork(duties_map, tick.now) # << >>

\* C4: a thread is spawned in a tick only for a duty whose own assigned slot
\* is the slot of that tick: a block thread only for a validator whose block
\* production slot is the current slot, an attestation thread only for one
\* whose attestation slot is the current slot.
C4_OnlyDueDutiesDispatched ==
    [][ pc = "process_duties" =>
          \A t \in NewThreads :
             /\ t.slot = current_slot
             /\ EpochOf(current_slot) \in DOMAIN duties_map
             /\ LET duty == duties_map[EpochOf(current_slot)][t.signer_index]
                IN /\ t.kind = "block"
                        => duty.block_production_slot = current_slot
                   /\ t.kind = "attestation"
                        => /\ duty.attestation_slot = current_slot
                           /\ t.duty = current_slot
      ]_vars

\* A validator got its block thread at a slot that is not its attestation
\* slot, and no attestation thread; another got an attestation thread at a
\* slot that is not its block production slot, and no block thread
C4_Witness ==
    /\ TickProcessed
    /\ EpochOf(current_slot) \in DOMAIN duties_map
    /\ \E v \in Validators :
          LET duty == duties_map[EpochOf(current_slot)][v]
          IN /\ duty.block_production_slot = current_slot
             /\ duty.attestation_slot \notin {None, current_slot}
             /\ BagIn(BlockThread(v, current_slot), threads)
             /\ \A t \in BagToSet(threads) :
                   ~(t.kind = "attestation" /\ t.signer_index = v
                        /\ t.slot = current_slot)

\* C5: get_current_work(slot) yields exactly the validators of the entry of
\* epoch(slot) with a duty assigned to slot, each with the duties due at
\* slot; a validator whose only duty is a block proposal at slot B is absent
\* at every other slot and present with produce_block at B.
C5_GetWorkExactlyDue ==
    TickProcessed =>
        LET slot  == current_slot
            epoch == EpochOf(slot)
        IN /\ epoch \notin DOMAIN duties_map => work = << >>
           /\ epoch \in DOMAIN duties_map =>
                /\ \A v \in Validators :
                      LET duty == duties_map[epoch][v]
                      IN /\ InWork(v, work) <=>
                              \/ duty.block_production_slot = slot
                              \/ duty.attestation_slot = slot
                         /\ (duty.block_production_slot # None
                               /\ duty.attestation_slot = None)
                              => (InWork(v, work)
                                    <=> duty.block_production_slot = slot)
                /\ \A i \in 1..Len(work) :
                      LET duty == duties_map[epoch][work[i][1]]
                      IN /\ work[i][2].produce_block
                              <=> duty.block_production_slot = slot
                         /\ work[i][2].attestation_duty =
                              IF duty.attestation_slot = slot
                              THEN slot ELSE None
                /\ \A i, j \in 1..Len(work) :
                      work[i][1] = work[j][1] => i = j

\* The slot 2 * SlotsPerEpoch was processed with a validator whose only duty
\* is a block proposal at that slot: it is in the work with produce_block
C5_Witness ==
    /\ TickProcessed
    /\ current_slot = 2 * SlotsPerEpoch
    /\ EpochOf(current_slot) \in DOMAIN duties_map
    /\ \E i \in 1..Len(work) :
          /\ duties_map[EpochOf(current_slot)][work[i][1]] =
                [block_production_slot |-> current_slot,
                 attestation_slot |-> None]
          /\ work[i][2].produce_block
          /\ work[i][2].attestation_duty = None

\* The step is a run_update that failed
FailedRefreshStep ==
    /\ pc = "check_for_duties"
    /\ tick'.update = "failed"

\* C6: a failed refresh leaves the duties map as it was, so that
\* get_current_work answers every slot as it did before the refresh.
C6_FailedRefreshKeepsMap ==
    [][ FailedRefreshStep =>
          /\ duties_map' = duties_map
          /\ \A s \in Slots :
                GetCurrentWork(duties_map', s) = GetCurrentWork(duties_map, s)
      ]_vars

\* A refresh failed for an epoch whose entry holds work due at the current
\* slot
C6_Witness ==
    /\ tick.update = "failed"
    /\ EpochOf(current_slot) \in DOMAIN duties_map
    /\ GetCurrentWork(duties_map, current_slot) # << >>

\* C7: a failed refresh is not fatal: the tick goes on to process_duties,
\* which dispatches what the existing map holds for the slot; start returns
\* no error for it and the next tick can be taken.
C7_FailedRefreshNotFatal ==
    /\ [][ FailedRefreshStep => pc' = "process_duties" /\ error' = "" ]_vars
    /\ [][ (pc = "process_duties" /\ tick.update = "failed") =>
              /\ pc' = "waiting"
              /\ tick'.got_work
              /\ work' = GetCurrentWork(duties_map, current_slot)
              /\ threads' =
                    threads (+) SeqToBag(SpawnAll(work', current_slot))
         ]_vars
    /\ [](tick.update = "failed" =>
             /\ pc \in {"process_duties", "waiting", "exited"}
             /\ pc = "exited" => error = "Service thread failed"
             /\ pc = "waiting" => tick.got_work /\ ENABLED Tick)

\* A tick whose refresh failed has dispatched threads from the entry an
\* earlier refresh had stored
C7_Witness ==
    /\ TickProcessed
    /\ tick.update = "failed"
    /\ tick.spawned > 0
    /\ \E t \in BagToSet(threads) : t.slot = current_slot

\* C8: a tick at which the clock yields no slot ends the service: the
\* scheduler loop stops and start returns an error.
C8_NoSlotIsFatal ==
    (tick.fired /\ tick.now = None) => (pc = "exited" /\ error # "")

\* C9: when the duration to the next slot cannot be determined, start
\* returns that error and no tick ever runs: no slot is recorded, no refresh
\* made, no thread spawned.
C9_NoDurationNoTick ==
    error = "Unable to determine duration to next slot. Exiting." =>
        /\ pc = "exited"
        /\ ~tick.fired
        /\ current_slot = None
        /\ duties_map = << >>
        /\ threads = EmptyBag
        /\ \A s \in Slots : dispatched[s] = 0
        /\ ~ENABLED Next

\* start has returned the duration error after a successful connection
C9_Witness ==
    /\ error = "Unable to determine duration to next slot. Exiting."
    /\ connected

\* C10: the info request is retried without a cap: after a failed request
\* the loop is at the request again and the request can be made whatever the
\* number of attempts; the first success leaves the loop for good; no tick
\* runs before a success.
C10_ConnectRetriesUncapped ==
    /\ [][ pc = "connect" =>
              /\ pc' \in {"connect", "fetch_keys"}
              /\ (pc' = "fetch_keys") = connected'
              /\ attempts' >= attempts
         ]_vars
    /\ [][ connected => connected' /\ pc' # "connect" ]_vars
    /\ [](pc = "connect" => ~connected /\ ENABLED TryInfo)
    /\ [](tick.fired \/ pc \in {"waiting", "check_for_duties",
                                 "process_duties"} => connected)

\* A tick has run after the connection took MaxAttempts requests or more
C10_Witness ==
    /\ attempts = MaxAttempts
    /\ connected
    /\ tick.fired

\* The state the threads are followed from is a state of the service
InitThreadsState ==
    /\ pc = "waiting" /\ error = "" /\ attempts = 1 /\ connected
    /\ current_slot = FirstSlot /\ duties_map = << >> /\ work = << >>
    /\ threads = EmptyBag
    /\ dispatched = [s \in Slots |-> IF s = FirstSlot THEN 1 ELSE 0]
    /\ tick = [fired |-> TRUE, now |-> FirstSlot, prev |-> None,
               update |-> "failed", got_work |-> TRUE, spawned |-> 0,
               epoch |-> EpochOf(FirstSlot), variant |-> 0,
               awaited |-> FALSE]
    /\ updates = [e \in {EpochOf(FirstSlot)} |-> 1]
    /\ stage = << >> /\ failures = {} /\ producing = << >>

\* C11: the scheduler loop never waits on a duty thread: process_duties
\* returns to the interval as soon as it has spawned, whatever it spawned,
\* and every step of a tick can be taken whatever the threads of earlier
\* ticks are doing.
C11_LoopNeverWaitsOnThreads ==
    /\ [][ pc = "process_duties" /\ tick'.got_work => pc' = "waiting" ]_vars
    /\ [](pc = "waiting" => ENABLED Tick)
    /\ [](pc = "check_for_duties" => ENABLED CheckForDuties)
    /\ [](pc = "process_duties" => ENABLED ProcessDuties)
    /\ [](pc \in {"waiting", "check_for_duties", "process_duties", "exited"})

\* A tick has run to its end at a later slot while a thread spawned by an
\* earlier tick is still running
C11_Witness ==
    /\ TickProcessed
    /\ tick.now = current_slot
    /\ \E t \in DOMAIN stage : stage[t] \in Running /\ t.slot < current_slot

\* The scheduler's own state
sched_vars == <<pc, error, current_slot, duties_map, work, threads,
                dispatched, tick, updates>>

\* C12: failures are isolated per thread: a step of one thread, failed or
\* not, changes neither another thread nor the scheduler's state; a thread
\* ends as done exactly when none of its steps failed, as failed otherwise.
C12_FailuresIsolated ==
    /\ [][ \A t \in DOMAIN stage :
              stage'[t] # stage[t] =>
                 /\ \A u \in (DOMAIN stage) \ {t} : stage'[u] = stage[u]
                 /\ UNCHANGED sched_vars
         ]_vars
    /\ [][ failures' # failures => UNCHANGED sched_vars ]_vars
    /\ [](\A t \in DOMAIN stage :
             /\ stage[t] = "failed" <=> t \in failures
             /\ stage[t] = "done" => t \notin failures)
    /\ [](failures \subseteq DOMAIN stage)
    /\ [](failures # {} /\ pc = "waiting" => ENABLED Tick)

\* Of the threads dispatched at one slot some have failed and all the others
\* have published
C12_Witness ==
    \E s \in Slots :
       LET T == {t \in DOMAIN stage : t.slot = s}
       IN /\ Cardinality(T) >= 3
          /\ \E t \in T : stage[t] = "failed"
          /\ \E t \in T : stage[t] = "done"
          /\ \A t \in T : stage[t] \in {"failed", "done"}
          /\ T \ failures = {t \in T : stage[t] = "done"}

\* The number of duties due in a list of work items
RECURSIVE DueCount(_)
DueCount(items) ==
    IF items = << >>
    THEN 0
    ELSE (IF Head(items)[2].produce_block THEN 1 ELSE 0)
         + (IF Head(items)[2].attestation_duty # None THEN 1 ELSE 0)
         + DueCount(Tail(items))

\* The threads due for a list of work items at a slot
DueThreads(items, slot) ==
    {BlockThread(items[i][1], slot) :
        i \in {j \in 1..Len(items) : items[j][2].produce_block}}
    \cup
    {AttestationThread(items[i][1], slot, items[i][2].attestation_duty) :
        i \in {j \in 1..Len(items) : items[j][2].attestation_duty # None}}

\* C13: a processed tick spawns exactly one thread per due (validator, duty)
\* pair: one block thread per item with produce_block and one attestation
\* thread per item with an attestation duty, so a validator with both gets
\* both.
C13_OneThreadPerDueDuty ==
    [][ pc = "process_duties" /\ tick'.got_work =>
          LET new == threads' (-) threads
          IN /\ BagToSet(new) = DueThreads(work', current_slot)
             /\ \A t \in BagToSet(new) : CopiesIn(t, new) = 1
             /\ tick'.spawned = DueCount(work')
             /\ BagCardinality(new) = DueCount(work')
      ]_vars

\* A validator with a block and an attestation due at the same slot has got
\* both threads
C13_Witness ==
    /\ TickProcessed
    /\ tick.spawned >= 2
    /\ \E i \in 1..Len(work) :
          /\ work[i][2].produce_block
          /\ work[i][2].attestation_duty = current_slot
          /\ BagIn(BlockThread(work[i][1], current_slot), threads)
          /\ BagIn(AttestationThread(work[i][1], current_slot, current_slot),
                   threads)

\* C15 as stated: run_update is called at most once for any epoch.
C15_RefreshOncePerEpoch ==
    \A e \in DOMAIN updates : updates[e] <= 1

\* The slots of an epoch at which process_duties has run
ProcessedSlots(e) == {s \in Slots : EpochOf(s) = e /\ dispatched[s] >= 1}

\* C15 as amended: run_update is called exactly once in every tick that
\* passes the duplicate test, for the epoch of the slot of that tick: an
\* epoch is refreshed once per processed slot of it, up to SlotsPerEpoch
\* times.
C15_RefreshOncePerProcessedSlot ==
    /\ \A e \in DOMAIN updates :
          /\ updates[e] <= SlotsPerEpoch
          /\ updates[e] = Cardinality(ProcessedSlots(e))
                + (IF pc = "process_duties" /\ EpochOf(current_slot) = e
                   THEN 1 ELSE 0)
    /\ \A s \in Slots :
          dispatched[s] >= 1 => EpochOf(s) \in DOMAIN updates

\* run_update has been called for one epoch at each of its slots
C15_Witness ==
    \E e \in DOMAIN updates :
       /\ updates[e] >= 2
       /\ updates[e] = SlotsPerEpoch
       /\ \A s \in Slots : EpochOf(s) = e => dispatched[s] = 1

\* The epoch of the current slot has no entry in the duties map
NoEntry == EpochOf(current_slot) \notin DOMAIN duties_map

\* C16: when the epoch of the slot has no entry, get_current_work yields no
\* work and the tick ends without a thread and without a panic, the slot
\* being recorded as current_slot all the same.
C16_AbsentEntryNoWork ==
    /\ [](TickProcessed /\ NoEntry =>
             /\ work = << >>
             /\ tick.spawned = 0
             /\ current_slot = tick.now
             /\ dispatched[current_slot] = 1
             /\ \A t \in BagToSet(threads) : t.slot # current_slot)
    /\ [][ pc = "process_duties" /\ NoEntry /\ pc' # pc =>
              /\ pc' = "waiting"
              /\ threads' = threads
              /\ current_slot' = current_slot
         ]_vars

\* A tick whose refresh failed has run to its end at a slot of an epoch that
\* has no entry
C16_Witness ==
    /\ TickProcessed
    /\ NoEntry
    /\ tick.update = "failed"
    /\ duties_map # << >>

\* A second and the tenth of a second, the slot lasting 6 s
OneSecond == SlotDuration \div 6
OneTenth == OneSecond \div 10

\* C17: SlotClock::now is empty at every wall time before genesis and is
\* the number of whole slot durations since genesis at every wall time at or
\* after it; with slots of 6 s it is empty 1 s before genesis and 1 at 6.1 s
\* after genesis.
C17_ClockNow ==
    clock_slot.read =>
        /\ wall_time < Genesis => clock_slot.slot = None
        /\ wall_time >= Genesis =>
              /\ clock_slot.slot # None
              /\ clock_slot.slot >= 0
              /\ clock_slot.slot * SlotDuration <= wall_time - Genesis
              /\ wall_time - Genesis < (clock_slot.slot + 1) * SlotDuration
        /\ wall_time = Genesis - OneSecond => clock_slot.slot = None
        /\ wall_time = Genesis + SlotDuration + OneTenth
              => clock_slot.slot = 1

\* The clock was read 6.1 s after genesis and gave slot 1
C17_Witness ==
    /\ clock_slot.read
    /\ wall_time = Genesis + SlotDuration + OneTenth
    /\ clock_slot.slot = 1

\* C18: the cache's last_block never advances: whatever update_cache calls
\* were made with whatever block numbers, last_block is still 0 and every
\* update scans from index 0.
C18_LastBlockNeverAdvances ==
    /\ last_block = 0
    /\ eth1.pc = "loop" => eth1.from = 0

\* An update that assigned its local last_block is over and the next update
\* has begun, from 0 again
C18_Witness ==
    /\ eth1.marked
    /\ eth1.pc = "loop"
    /\ eth1.local = None
    /\ eth1.to > 0
    /\ eth1.from = 0
    /\ last_block = 0

\* C19: in a processed tick the slot is recorded first, then the refresh is
\* made, for the epoch of the slot recorded in this tick, and it has
\* returned before get_current_work is called for that slot: after a
\* refresh that succeeded the work is that of the entry it stored.
C19_TickOrder ==
    /\ pc = "check_for_duties" =>
          /\ current_slot = tick.now
          /\ tick.update = "none"
          /\ ~tick.got_work
    /\ tick.update # "none" =>
          /\ tick.now # None
          /\ current_slot = tick.now
          /\ tick.epoch = EpochOf(tick.now)
    /\ pc = "process_duties" => tick.update # "none" /\ ~tick.got_work
    /\ tick.got_work => tick.update # "none"
    /\ (TickProcessed /\ tick.update = "ok") =>
          /\ tick.epoch \in DOMAIN duties_map
          /\ duties_map[tick.epoch] = NodeDuties(tick.epoch, tick.variant)
          /\ work = WorkFrom(NodeDuties(tick.epoch, tick.variant),
                             current_slot, 0)

\* The first tick of an epoch has dispatched threads: their duties can only
\* be those of the refresh made in that tick
C19_Witness ==
    /\ TickProcessed
    /\ tick.update = "ok"
    /\ tick.prev # None
    /\ EpochOf(tick.prev) # tick.epoch
    /\ tick.spawned > 0
    /\ \E t \in BagToSet(threads) : t.slot = current_slot

C21_UpdatePopulatesCache ==
    (eth1.pc = "idle" /\ eth1.calls > 0)
        => \A i \in eth1.from .. (eth1.to - 1) : i \in eth1_cache

\* C22: the "current slot must be updated" expectations never fail: whenever
\* check_for_duties or process_duties is about to read current_slot, it is
\* set and is the slot the clock returned in this tick; no state has the
\* service panicked, and every spawned thread was handed a slot.
C22_CurrentSlotSetWhenRead ==
    /\ pc # "panicked"
    /\ pc \in {"check_for_duties", "process_duties"} =>
          /\ current_slot # None
          /\ tick.fired
          /\ current_slot = tick.now
    /\ \A t \in BagToSet(threads) : t.slot \in Slots

\* process_duties is about to read current_slot in a tick that came after
\* ticks the clock had no slot for, or a duplicate one, had returned early
C22_Witness ==
    /\ pc = "process_duties"
    /\ current_slot # None
    /\ current_slot = tick.now
    /\ tick.prev # None
    /\ tick.now > tick.prev + 1
    /\ threads # EmptyBag

\* C23: a block-production thread works on the slot of the tick that
\* dispatched it: the slot handed to a thread at its spawn is current_slot of
\* that moment, and every step the thread takes works on that slot, also a
\* step taken after later ticks have advanced current_slot.
C23_TaskKeepsDispatchSlot ==
    /\ [][ pc = "process_duties" /\ tick'.got_work =>
              \A t \in (DOMAIN stage') \ (DOMAIN stage) :
                 t.slot = current_slot
         ]_vars
    /\ [](\A t \in DOMAIN producing :
             (t.kind = "block" /\ producing[t] # NotStepped)
                => producing[t].slot = t.slot)
    /\ [](DOMAIN producing = DOMAIN stage)

\* A block thread still running took its latest step after a later tick had
\* advanced current_slot, and worked on the slot it was dispatched at
C23_Witness ==
    \E t \in DOMAIN producing :
       /\ t.kind = "block"
       /\ stage[t] \in Running
       /\ producing[t].slot = t.slot
       /\ producing[t].at > t.slot
       /\ current_slot > t.slot

====
